---------------------------- MODULE Spec2Model ----------------------------
(***************************************************************************)
(* Model of src/main.py: AdvancedGameMonitor, a discord bot that polls the *)
(* Epic Games and Steam catalog endpoints, classifies each returned record *)
(* with is_game_free, keeps the ids of the free records it has seen in     *)
(* tracked_games and calls send_game_alert for each new one.               *)
(*                                                                         *)
(* The bot runs on one asyncio event loop: code between two awaits is one  *)
(* atomic step.  The awaits of the poll task are session.get/response.json *)
(* (pc = "epic_get", "steam_get"), channel.send (pc = "sending"),          *)
(* asyncio.sleep(15) (pc = "sleep15") and the wait for the next period     *)
(* (pc = "idle").                                                          *)
(***************************************************************************)
EXTENDS Integers, Sequences, FiniteSets, TLC

\* ----------------------------------------------------------------- bounds
MaxCycles == 2      \* poll cycles explored
MaxItems  == 2      \* records in one catalog response
MaxStatus == 1      \* firings of the hourly status task explored
MaxN      == 2      \* largest size/number of a JSON value given to is_game_free

\* ------------------------------------------------------------ JSON values
\* A JSON value is abstracted to its type t and its size n (length of a list,
\* string or mapping, magnitude of a number, 0/1 for false/true).
Absent == [t |-> "absent", n |-> 0]     \* the key is not in the mapping
Null   == [t |-> "null", n |-> 0]

JsonValues ==
    {Absent, Null}
    \cup {[t |-> "bool", n |-> b] : b \in 0..1}
    \cup {[t |-> ty, n |-> k] : ty \in {"num", "str", "list", "map"}, k \in 0..MaxN}

\* bool(v) of Python: None, False, 0 and empty containers are falsy.
Truthy(v) == v.t \notin {"absent", "null"} /\ v.n > 0

\* dict.get(key, default): the default replaces an absent key only; a key
\* present with the value null yields None.
GetOr(v, default) == IF v.t = "absent" THEN default ELSE v

EmptyList == [t |-> "list", n |-> 0]

\* The value under 'promotions': its type and, when it is a mapping, the value
\* under 'promotionalOffers'.
Promo(ty, offers) == [t |-> ty, offers |-> offers]
EmptyDict == Promo("map", Absent)

AllPromotions ==
    {Promo(ty, Absent) : ty \in {"absent", "null", "str", "num", "list"}}
    \cup {Promo("map", o) : o \in JsonValues}

\* ---------------------------------------------------------------- records
NoId == "None"                  \* game_data.get('id') of a record without id
Ids  == {"A1", "A2"}
Keys == Ids \cup {NoId}         \* what can become a key of tracked_games
Platforms == {"epic_games", "steam"}

\* One element of the catalog response: a mapping with an id and a promotions
\* value, or a value that is no mapping (kind "str").
Game(id, promo) == [kind |-> "map", id |-> id, promotions |-> promo]
NotAMapping == [kind |-> "str", id |-> NoId, promotions |-> Promo("absent", Absent)]

AllGames == {Game(i, p) : i \in Keys, p \in AllPromotions} \cup {NotAMapping}

\* The records the poll cycles are explored with: no offers, one offer, no id,
\* and a promotionalOffers value that is a non-empty string.
NoOffers   == Promo("map", EmptyList)
OneOffer   == Promo("map", [t |-> "list", n |-> 1])
StringOffers == Promo("map", [t |-> "str", n |-> 1])
SampleGames ==
    {Game("A1", OneOffer), Game("A2", OneOffer), Game("A2", NoOffers),
     Game(NoId, OneOffer), Game("A1", StringOffers), NotAMapping}

\* The records the Steam responses are explored with.
SteamGames == {Game("A1", OneOffer), Game("A2", NoOffers)}

RECURSIVE SeqsUpTo(_, _)
SeqsUpTo(S, k) ==
    IF k = 0 THEN {<<>>}
    ELSE LET shorter == SeqsUpTo(S, k - 1)
         IN  shorter \cup {Append(s, x) : s \in {q \in shorter : Len(q) = k - 1}, x \in S}


\* ------------------------------------------------------------- is_game_free
\* The statement of is_game_free that raises, if any: game_data.get on a
\* record that is no mapping, promotions.get on a promotions value that is no
\* mapping (None included; an absent key yields the default {}).
IsGameFreeRaises(game_data) ==
    \/ game_data.kind # "map"
    \/ GetOr(game_data.promotions, EmptyDict).t # "map"

is_game_free_TruthyPromotions(game_data) ==
    /\ game_data.kind = "map"
    /\ game_data.promotions.t \notin {"absent", "null"}

\* Lines 136-147: True iff promotional_offers is truthy; False when the
\* lookup raised (except Exception: return False).
is_game_free(game_data) ==
    IF IsGameFreeRaises(game_data)
    THEN FALSE
    ELSE Truthy(GetOr(GetOr(game_data.promotions, EmptyDict).offers, EmptyList))

\* ---------------------------------------------------------------- responses
\* What one GET yields: status 0 stands for session.get raising (transport
\* error, timeout); otherwise the HTTP status and the body.  body is
\*   "bad_json"      response.json() raises
\*   "no_path"       data['data']['Catalog']['searchStore']['elements'] raises
\*   "not_iterable"  elements is null or a number
\*   "strings"       elements is a string or a mapping: iterating it yields strings
\*   "list"          elements is a list of records
Response(status, body, items) == [status |-> status, body |-> body, items |-> items]

ResponsesOver(records) ==
    {Response(0, "none", <<>>)}
    \cup {Response(s, b, <<>>) : s \in {200, 500}, b \in {"bad_json", "no_path", "not_iterable"}}
    \cup {Response(s, "strings", L) :
            s \in {200, 500}, L \in SeqsUpTo({NotAMapping}, MaxItems) \ {<<>>}}
    \cup {Response(s, "list", L) : s \in {200, 500}, L \in SeqsUpTo(records, MaxItems)}

EpicResponses == ResponsesOver(SampleGames)
SteamResponses == ResponsesOver(SteamGames)

\* A statement inside the try of check_epic_games / check_steam_games raises.
GetRaises(resp) == resp.status = 0
JsonRaises(resp) == resp.status = 200 /\ resp.body = "bad_json"
PathRaises(resp) ==
    resp.status = 200 /\ resp.body \in {"no_path", "not_iterable"}

EpicElements_NoStatusCheck(resp) ==
    IF resp.body \in {"strings", "list"} THEN resp.items ELSE <<>>

\* Lines 96-101: the values the for loop of check_epic_games iterates over.
EpicElements(resp) ==
    IF resp.status = 200 /\ resp.body \in {"strings", "list"} THEN resp.items ELSE <<>>

check_epic_games_handler_Propagates(resp) ==
    IF GetRaises(resp) \/ JsonRaises(resp) \/ PathRaises(resp)
    THEN "monitor_games" ELSE "none"

check_epic_games_handler_Uncaught(resp) ==
    IF GetRaises(resp) \/ JsonRaises(resp) \/ PathRaises(resp)
    THEN "uncaught" ELSE "none"

\* Lines 95-105: the function whose except clause handles an exception raised
\* by the fetch ("none" when nothing is raised).
check_epic_games_handler(resp) ==
    IF GetRaises(resp) \/ JsonRaises(resp) \/ PathRaises(resp)
    THEN "check_epic_games" ELSE "none"

\* Lines 109-117: the same for check_steam_games, which never reads the path.
check_steam_games_handler(resp) ==
    IF GetRaises(resp) \/ JsonRaises(resp) THEN "check_steam_games" ELSE "none"

\* Where the poll task stands once the fetch of check_epic_games is over, by
\* the function that handled its exception: check_epic_games returns to the
\* sleep of monitor_games (line 81); the except clause of monitor_games (line
\* 84) ends the iteration; an exception no clause handles ends the loop.
AfterEpicFetch(handler, elements) ==
    CASE handler = "none" -> IF elements = <<>> THEN "sleep15" ELSE "epic_loop"
      [] handler = "check_epic_games" -> "sleep15"
      [] handler = "monitor_games" -> "idle"
      [] OTHER -> "crashed"

process_game_data_handler_Propagates(raised) ==
    IF raised THEN "check_epic_games" ELSE "none"

\* Lines 121-132: the function whose except clause handles an exception raised
\* while one record is processed.
process_game_data_handler(raised) ==
    IF raised THEN "process_game_data" ELSE "none"

\* ------------------------------------------------------------ tracked_games
IsNew_Always(game_id, tracked) == TRUE
IsNew_Negated(game_id, tracked) == game_id \in DOMAIN tracked

\* Line 126, second conjunct: game_id not in self.tracked_games
IsNew(game_id, tracked) == game_id \notin DOMAIN tracked

\* Line 127: self.tracked_games[game_id] = datetime.now()
SetItem(tracked, game_id, t) ==
    [k \in DOMAIN tracked \cup {game_id} |-> IF k = game_id THEN t ELSE tracked[k]]

\* ---------------------------------------------------------- send_game_alert
CallSendGameAlert_Deferred(calls, platform, game_id) == calls

\* Line 128: send_game_alert is called (and runs up to its first await) in the
\* same step as the insertion.
CallSendGameAlert(calls, platform, game_id) ==
    [calls EXCEPT ![platform][game_id] = @ + 1]

\* How one call of send_game_alert goes up to its await:
\*   "bad_channel_id"   int(os.getenv(...)) or the embed construction raises
\*   "channel_missing"  get_channel returns None: log and return
\*   "awaiting_send"    channel.send is awaited
AlertStarts == {"bad_channel_id", "channel_missing", "awaiting_send"}

send_game_alert_handler_Propagates(raised) ==
    IF raised THEN "process_game_data" ELSE "none"

\* Lines 151-205: the function whose except clause handles an exception raised
\* inside send_game_alert.
send_game_alert_handler(raised) ==
    IF raised THEN "send_game_alert" ELSE "none"

TrackedAfterFailedAlert_Rollback(tracked, game_id) ==
    [k \in DOMAIN tracked \ {game_id} |-> tracked[k]]

\* Lines 155-157, 204-205: what a failed delivery does to tracked_games.
TrackedAfterFailedAlert(tracked, game_id) == tracked

\* ------------------------------------------------------------------ the loops
LoopMayStart_Always(at) == TRUE

\* Line 76: tasks.loop runs monitor_games in one task, awaiting each iteration
\* before it sleeps until the next: an iteration starts only from the wait.
LoopMayStart(at) == at = "idle"

wait_until_ready_Skipped(is_ready) == TRUE

\* Lines 207-210: wait_until_ready returns once the bot is ready.
wait_until_ready(is_ready) == is_ready

system_status_tracked_Reset(tracked) == <<>>

\* Lines 88-91: system_status reads len(self.tracked_games) and start_time.
system_status_tracked(tracked) == tracked

\* -------------------------------------------------------------------- state
VARIABLES
    tracked_games,  \* self.tracked_games: key -> time of insertion
    session,        \* self.session: "none", "open" or "closed"
    ready,          \* the bot is ready (wait_until_ready returns)
    pc,             \* where the monitor_games task stands
    games,          \* records of the Epic response still to be processed
    alerts,         \* alerts[platform][key]: calls of send_game_alert so far
    failed,         \* <<platform, key>> of the alerts that were not delivered
    now,            \* the clock read by datetime.now()
    cycle,          \* iterations of monitor_games started
    epicFetches,    \* GETs issued by check_epic_games
    steamFetches,   \* GETs issued by check_steam_games
    epicOutcome,    \* this cycle's Epic fetch: "none", "ok" or "failed"
    prevEpicFailed, \* the Epic fetch of the previous cycle failed
    returned,       \* <<platform, id>> of the free records of successful fetches
    lastResult,     \* what the last process_game_data call of this check did
    statusCount,    \* firings of system_status
    running,        \* iterations of monitor_games in flight
    tasks           \* concurrent process_game_data tasks (SpecRace only)

vars == <<tracked_games, session, ready, pc, games, alerts, failed, now, cycle,
          epicFetches, steamFetches, epicOutcome, prevEpicFailed, returned,
          lastResult, statusCount, running, tasks>>

\* The variables only the poll cycle's bookkeeping writes.
history == <<epicFetches, steamFetches, epicOutcome, prevEpicFailed, returned>>

\* A fetch that yields no list of records: the FetchError of the specification.
FetchFailed(resp) == resp.status # 200 \/ resp.body # "list"

FreeIds(platform, resp) ==
    IF FetchFailed(resp) THEN {}
    ELSE {<<platform, resp.items[i].id>> :
            i \in {j \in 1..Len(resp.items) : is_game_free(resp.items[j])}}

\* Lines 32-59: the state after __init__.
Init ==
    /\ tracked_games = <<>>
    /\ session = "none"
    /\ ready = FALSE
    /\ pc = "not_started"
    /\ games = <<>>
    /\ alerts = [p \in Platforms |-> [k \in Keys |-> 0]]
    /\ failed = {}
    /\ now = 0
    /\ cycle = 0
    /\ epicFetches = 0
    /\ steamFetches = 0
    /\ epicOutcome = "none"
    /\ prevEpicFailed = FALSE
    /\ returned = {}
    /\ lastResult = "none"
    /\ statusCount = 0
    /\ running = 0
    /\ tasks = <<>>

\* Lines 61-68: setup_hook creates the session and starts both loops; the
\* monitor task first runs before_monitor.
SetupHook ==
    /\ pc = "not_started"
    /\ session' = "open"
    /\ pc' = "before_loop"
    /\ UNCHANGED <<tracked_games, ready, games, alerts, failed, now, cycle,
                   history, lastResult, statusCount, running, tasks>>

\* The gateway connection completes after setup_hook (discord.py calls
\* setup_hook during login, before it connects).
BecomeReady ==
    /\ pc \notin {"not_started", "stopped", "crashed"}
    /\ ~ready
    /\ ready' = TRUE
    /\ UNCHANGED <<tracked_games, session, pc, games, alerts, failed, now, cycle,
                   history, lastResult, statusCount, running, tasks>>

\* Lines 207-210: before_monitor returns once the bot is ready.
BeforeMonitor ==
    /\ pc = "before_loop"
    /\ wait_until_ready(ready)
    /\ pc' = "idle"
    /\ UNCHANGED <<tracked_games, session, ready, games, alerts, failed, now,
                   cycle, history, lastResult, statusCount, running, tasks>>

\* Lines 76-80, 95-96: the period elapses, monitor_games calls
\* check_epic_games, which issues its GET and awaits the response.
StartCycle ==
    /\ LoopMayStart(pc)
    /\ pc \notin {"not_started", "before_loop", "stopped", "crashed"}
    /\ cycle < MaxCycles
    /\ cycle' = cycle + 1
    /\ running' = running + 1
    /\ now' = now + 1
    /\ epicFetches' = epicFetches + 1
    /\ prevEpicFailed' = (epicOutcome = "failed")
    /\ epicOutcome' = "none"
    /\ pc' = "epic_get"
    /\ UNCHANGED <<tracked_games, session, ready, games, alerts, failed,
                   steamFetches, returned, lastResult, statusCount, tasks>>

AfterItem_Break(rest) == "sleep15"

\* Where the poll task goes once the record at the head of games is done.
AfterItem(rest) == IF rest = <<>> THEN "sleep15" ELSE "epic_loop"

\* Lines 96-105 and 79-85: the response arrives.  An exception is handled in
\* check_epic_games, after which monitor_games goes on to its sleep.
EpicResponse(resp) ==
    /\ pc = "epic_get"
    /\ epicOutcome' = IF FetchFailed(resp) THEN "failed" ELSE "ok"
    /\ returned' = returned \cup FreeIds("epic_games", resp)
    /\ games' = IF check_epic_games_handler(resp) = "none"
                THEN EpicElements(resp) ELSE <<>>
    /\ pc' = AfterEpicFetch(check_epic_games_handler(resp), EpicElements(resp))
    /\ running' = IF pc' \in {"idle", "crashed"} THEN running - 1 ELSE running
    /\ UNCHANGED <<tracked_games, session, ready, alerts, failed, now, cycle,
                   epicFetches, steamFetches, prevEpicFailed, lastResult,
                   statusCount, tasks>>

\* Lines 119-132 and send_game_alert up to its await (lines 151-201), for the
\* record at the head of games.
ProcessGameData(game_data, platform) ==
    /\ pc = "epic_loop"
    /\ IF game_data.kind # "map"
       THEN \* game_data.get raises AttributeError: except at line 131; were
            \* it handled in check_epic_games the loop over games would end
            /\ lastResult' = "error"
            /\ games' = IF process_game_data_handler(TRUE) = "process_game_data"
                        THEN Tail(games) ELSE <<>>
            /\ pc' = AfterItem(games')
            /\ UNCHANGED <<tracked_games, alerts, failed>>
       ELSE IF is_game_free(game_data) /\ IsNew(game_data.id, tracked_games)
       THEN \E start \in AlertStarts :
            /\ alerts' = CallSendGameAlert(alerts, platform, game_data.id)
            /\ IF start = "awaiting_send"
               THEN /\ tracked_games' = SetItem(tracked_games, game_data.id, now)
                    /\ pc' = "sending"
                    /\ UNCHANGED <<games, failed, lastResult>>
               ELSE /\ tracked_games' =
                         TrackedAfterFailedAlert(
                             SetItem(tracked_games, game_data.id, now), game_data.id)
                    /\ failed' = failed \cup {<<platform, game_data.id>>}
                    /\ lastResult' =
                         IF send_game_alert_handler(start = "bad_channel_id")
                                = "process_game_data"
                         THEN "error" ELSE "new"
                    /\ games' = Tail(games)
                    /\ pc' = AfterItem(Tail(games))
       ELSE /\ lastResult' = IF is_game_free(game_data) THEN "seen" ELSE "not_free"
            /\ games' = Tail(games)
            /\ pc' = AfterItem(Tail(games))
            /\ UNCHANGED <<tracked_games, alerts, failed>>
    /\ UNCHANGED <<session, ready, now, cycle, history, statusCount, running,
                   tasks>>

\* Lines 201-205, 129: channel.send returns or raises.
SendComplete(platform, delivered) ==
    /\ pc = "sending"
    /\ LET game_id == Head(games).id
       IN  IF delivered
           THEN /\ lastResult' = "new"
                /\ UNCHANGED <<tracked_games, failed>>
           ELSE /\ tracked_games' = TrackedAfterFailedAlert(tracked_games, game_id)
                /\ failed' = failed \cup {<<platform, game_id>>}
                /\ lastResult' =
                     IF send_game_alert_handler(TRUE) = "process_game_data"
                     THEN "error" ELSE "new"
    /\ games' = Tail(games)
    /\ pc' = AfterItem(Tail(games))
    /\ UNCHANGED <<session, ready, alerts, now, cycle, history, statusCount,
                   running, tasks>>

\* Lines 81-82, 109-110: check_epic_games has returned, the 15 seconds elapse
\* and check_steam_games issues its GET.
Sleep15 ==
    /\ pc = "sleep15"
    /\ now' = now + 1
    /\ steamFetches' = steamFetches + 1
    /\ pc' = "steam_get"
    /\ lastResult' = "none"
    /\ UNCHANGED <<tracked_games, session, ready, games, alerts, failed, cycle,
                   epicFetches, epicOutcome, prevEpicFailed, returned,
                   statusCount, running, tasks>>

\* Lines 110-117: the Steam response arrives; it is parsed and dropped, and
\* the iteration of monitor_games ends.
SteamResponse(resp) ==
    /\ pc = "steam_get"
    /\ check_steam_games_handler(resp) \in {"none", "check_steam_games"}
    /\ returned' = returned \cup FreeIds("steam", resp)
    /\ pc' = "idle"
    /\ running' = running - 1
    /\ UNCHANGED <<tracked_games, session, ready, games, alerts, failed, now,
                   cycle, epicFetches, steamFetches, epicOutcome, prevEpicFailed,
                   lastResult, statusCount, tasks>>

\* Lines 87-91: system_status, started by setup_hook, logs the number of
\* tracked games and the uptime.
SystemStatus ==
    /\ pc \notin {"not_started", "stopped"}
    /\ statusCount < MaxStatus
    /\ statusCount' = statusCount + 1
    /\ tracked_games' = system_status_tracked(tracked_games)
    /\ UNCHANGED <<session, ready, pc, games, alerts, failed, now, cycle, history,
                   lastResult, running, tasks>>

\* Lines 70-74: close() closes the session if there is one and closes the
\* bot, which ends run() and with it both loops: the iteration in flight is
\* cancelled and its local state is gone.
Close ==
    /\ pc # "stopped"
    /\ session' = IF session = "open" THEN "closed" ELSE session
    /\ pc' = "stopped"
    /\ running' = 0
    /\ games' = <<>>
    /\ lastResult' = "none"
    /\ UNCHANGED <<tracked_games, ready, alerts, failed, now, cycle, history,
                   statusCount, tasks>>

Next ==
    \/ SetupHook
    \/ BecomeReady
    \/ BeforeMonitor
    \/ StartCycle
    \/ \E resp \in EpicResponses : EpicResponse(resp)
    \/ ProcessGameData(Head(games), "epic_games")
    \/ \E delivered \in BOOLEAN : SendComplete("epic_games", delivered)
    \/ Sleep15
    \/ \E resp \in SteamResponses : SteamResponse(resp)
    \/ SystemStatus
    \/ Close

Spec == Init /\ [][Next]_vars

\* ---------------------------------------------- is_game_free on its own
\* is_game_free applied to every record of AllGames.
InitClassify ==
    /\ games \in {<<g>> : g \in AllGames}
    /\ pc = "classify"
    /\ tracked_games = <<>>
    /\ session = "none"
    /\ ready = FALSE
    /\ alerts = [p \in Platforms |-> [k \in Keys |-> 0]]
    /\ failed = {}
    /\ now = 0
    /\ cycle = 0
    /\ epicFetches = 0
    /\ steamFetches = 0
    /\ epicOutcome = "none"
    /\ prevEpicFailed = FALSE
    /\ returned = {}
    /\ lastResult = "none"
    /\ statusCount = 0
    /\ running = 0
    /\ tasks = <<>>

\* Lines 134-147: one call of is_game_free on the record in games.
Classify ==
    /\ pc = "classify"
    /\ lastResult' = IF is_game_free(Head(games)) THEN "free" ELSE "not_free"
    /\ pc' = "classified"
    /\ UNCHANGED <<tracked_games, session, ready, games, alerts, failed, now,
                   cycle, history, statusCount, running, tasks>>

NextClassify == Classify

SpecClassify == InitClassify /\ [][NextClassify]_vars

\* ------------------------------------------------------------------ claims
TotalAlerts(k) == alerts["epic_games"][k] + alerts["steam"][k]

\* The record process_game_data is working on, if any.
Current == IF games = <<>> THEN NotAMapping ELSE Head(games)

\* A step of process_game_data on the record at the head of games.
ProcessStep == pc = "epic_loop" /\ pc' # "stopped" /\ (games' # games \/ pc' # pc)

\* C1: send_game_alert is called at most once per key over the whole run, and
\* every tracked key has had exactly one call: a record returned free again
\* in a later cycle adds no call.
C1_AtMostOneAlertPerKey ==
    \A k \in Keys :
        /\ TotalAlerts(k) <= 1
        /\ k \in DOMAIN tracked_games => TotalAlerts(k) = 1

\* A1 was inserted in cycle 1 and has been returned free again in cycle 2.
C1_Witness ==
    /\ cycle = 2
    /\ lastResult = "seen"
    /\ DOMAIN tracked_games = {"A1"}
    /\ tracked_games["A1"] = 1
    /\ TotalAlerts("A1") = 1
    /\ failed = {}

\* C2: when both platforms have returned a free record with the same id, the
\* store holds two entries for that id and two alerts have been sent.
EntriesFor(id) == {k \in DOMAIN tracked_games : k = id}

C2_CompositeKey ==
    \A id \in Keys :
        (/\ pc = "idle"
         /\ <<"epic_games", id>> \in returned
         /\ <<"steam", id>> \in returned)
        => (Cardinality(EntriesFor(id)) = 2 /\ TotalAlerts(id) = 2)

\* C3: a failed delivery is handled inside send_game_alert (process_game_data
\* goes on to log the new game), the key stays tracked and is alerted once.
C3_FailedAlertKept ==
    /\ [](\A pk \in failed :
            /\ pk[2] \in DOMAIN tracked_games
            /\ alerts[pk[1]][pk[2]] = 1)
    /\ [][(failed' # failed) => lastResult' = "new"]_vars

\* The delivery of A1 failed in cycle 1 and A1 has been returned again in
\* cycle 2.
C3_Witness ==
    /\ cycle = 2
    /\ lastResult = "seen"
    /\ failed = {<<"epic_games", "A1">>}
    /\ DOMAIN tracked_games = {"A1"}
    /\ tracked_games["A1"] = 1
    /\ alerts["epic_games"]["A1"] = 1

\* C4: every cycle issues the Epic fetch; a cycle whose Epic fetch failed
\* still issues the Steam fetch before it ends, and so does the cycle after it.
C4_FetchFailureIsolated ==
    /\ epicFetches = cycle
    /\ (epicOutcome = "failed" /\ pc \in {"steam_get", "idle"}) => steamFetches = cycle
    /\ prevEpicFailed =>
         /\ steamFetches >= cycle - 1
         /\ pc \in {"steam_get", "idle"} => steamFetches = cycle

\* The Epic fetch of cycle 1 failed and cycle 2 has made both fetches.
C4_Witness ==
    /\ prevEpicFailed
    /\ cycle = 2
    /\ pc = "idle"
    /\ epicFetches = 2
    /\ steamFetches = 2

\* C5: a failed fetch changes neither the store nor the alerts, whatever its
\* body holds, and the cycle goes on to the next source.
C5_FailedFetchNoEffect ==
    [][/\ epicOutcome' = "failed" => UNCHANGED <<tracked_games, alerts>>
       /\ pc = "steam_get" => UNCHANGED <<tracked_games, alerts>>
       /\ (pc = "epic_get" /\ epicOutcome' = "failed") => pc' \in {"epic_loop", "sleep15"}
      ]_vars

\* A failed Epic fetch of cycle 2 whose elements were iterated, with the
\* store of cycle 1 intact.
C5_Witness ==
    /\ cycle = 2
    /\ epicOutcome = "failed"
    /\ pc = "sleep15"
    /\ lastResult = "error"
    /\ DOMAIN tracked_games = {"A1", "A2"}
    /\ TotalAlerts("A1") = 1 /\ TotalAlerts("A2") = 1

\* C6: for a well-formed record (promotions absent, null or a mapping whose
\* promotionalOffers is absent, null or a list) is_game_free returns True
\* exactly when the offer list has at least one entry.
WellFormed(g) ==
    /\ g.kind = "map"
    /\ g.promotions.t \in {"absent", "null", "map"}
    /\ g.promotions.offers.t \in {"absent", "null", "list"}

HasOffer(g) ==
    /\ g.promotions.t = "map"
    /\ g.promotions.offers.t = "list"
    /\ g.promotions.offers.n >= 1

C6_FreeIffOffer ==
    (pc = "classified" /\ WellFormed(Head(games)))
    => (lastResult = "free" <=> HasOffer(Head(games)))

C6_Witness ==
    /\ pc = "classified"
    /\ lastResult = "free"
    /\ Head(games) = Game("A1", Promo("map", [t |-> "list", n |-> 2]))

\* C7: a record whose promotions value is malformed (null, no mapping, or a
\* promotionalOffers that is no list) never has an alert in flight.
Malformed(g) ==
    \/ g.kind # "map"
    \/ g.promotions.t \notin {"absent", "map"}
    \/ g.promotions.offers.t \notin {"absent", "list"}

C7_FailClosed == pc = "sending" => ~Malformed(Current)

\* C8: a check-and-insert of an absent key inserts it with the current time
\* and leaves the other entries alone; of a present key it changes neither the
\* store nor the alerts and reports the record as seen.
C8_InsertIfAbsent ==
    [][(ProcessStep /\ Current.kind = "map" /\ is_game_free(Current)) =>
         LET key == Current.id
         IN  IF key \notin DOMAIN tracked_games
             THEN /\ DOMAIN tracked_games' = DOMAIN tracked_games \cup {key}
                  /\ tracked_games'[key] = now
                  /\ \A k \in DOMAIN tracked_games : tracked_games'[k] = tracked_games[k]
                  /\ alerts'["epic_games"][key] + alerts'["steam"][key] = 1
             ELSE /\ tracked_games' = tracked_games
                  /\ alerts' = alerts
                  /\ lastResult' = "seen"
      ]_vars

\* A2 returned free twice in the response of cycle 1.
C8_Witness ==
    /\ cycle = 1
    /\ lastResult = "seen"
    /\ DOMAIN tracked_games = {"A2"}
    /\ TotalAlerts("A2") = 1

\* C9: once a cycle is over the store holds exactly the ids of the free
\* records returned by successful fetches, and as many alerts were sent.
ReturnedIds == {pk[2] : pk \in returned}

C9_StoreIsFreeReturned ==
    /\ pc = "idle" => DOMAIN tracked_games = ReturnedIds
    /\ TotalAlerts("A1") + TotalAlerts("A2") + TotalAlerts(NoId)
         = Cardinality(DOMAIN tracked_games)

\* C10: no step removes a key of tracked_games or changes its time.
C10_StoreOnlyGrows ==
    [][\A k \in DOMAIN tracked_games :
         /\ k \in DOMAIN tracked_games'
         /\ tracked_games'[k] = tracked_games[k]]_vars

\* Two keys inserted in different cycles, after a failed delivery and a
\* status report.
C10_Witness ==
    /\ cycle = 2
    /\ DOMAIN tracked_games = {"A1", NoId}
    /\ tracked_games["A1"] = 1
    /\ tracked_games[NoId] = 3
    /\ failed # {}
    /\ statusCount = 1
    /\ pc = "idle"

\* C11: at every point where another task can run, each tracked key has had
\* send_game_alert called for it: the call is in flight, has failed or has
\* delivered.
InFlight(k) == pc = "sending" /\ Current.id = k

C11_TrackedImpliesAlerted ==
    \A k \in DOMAIN tracked_games :
        /\ \E p \in Platforms : alerts[p][k] >= 1
        /\ InFlight(k) => \A p \in Platforms : <<p, k>> \notin failed

\* The alert of A2 is in flight while A1, whose alert failed, stays tracked,
\* and system_status has run.
C11_Witness ==
    /\ pc = "sending"
    /\ Current.id = "A2"
    /\ DOMAIN tracked_games = {"A1", "A2"}
    /\ failed = {<<"epic_games", "A1">>}
    /\ statusCount = 1

\* C12: a record without id is never tracked and never alerted.
C12_NoIdNeverTracked ==
    /\ NoId \notin DOMAIN tracked_games
    /\ TotalAlerts(NoId) = 0

\* ------------------------------------------------------------------ fairness
\* The steps of the poll task that the event loop, the HTTP timeouts and the
\* gateway make happen: every await of the task returns or raises.
PollStep ==
    \/ SetupHook
    \/ BecomeReady
    \/ BeforeMonitor
    \/ StartCycle
    \/ \E resp \in EpicResponses : EpicResponse(resp)
    \/ ProcessGameData(Head(games), "epic_games")
    \/ \E delivered \in BOOLEAN : SendComplete("epic_games", delivered)
    \/ Sleep15
    \/ \E resp \in SteamResponses : SteamResponse(resp)

FairSpec == Init /\ [][Next]_vars /\ WF_vars(PollStep)

\* C13: no failure ends the loop: unless the bot is closed, the poll task
\* never dies of an exception and goes on to start every cycle explored.
C13_LoopNeverDies ==
    /\ [](pc # "crashed")
    /\ <>(pc = "stopped" \/ (cycle = MaxCycles /\ pc = "idle"))

\* The last cycle explored has ended after an Epic fetch that failed in the
\* cycle before and a failed delivery.
C13_Witness ==
    /\ cycle = MaxCycles
    /\ pc = "idle"
    /\ prevEpicFailed
    /\ failed # {}

\* C14: at most one iteration of monitor_games is in flight, and it is in
\* flight exactly while the poll task is fetching, processing, sending or
\* sleeping between the sources.
InCycle == pc \in {"epic_get", "epic_loop", "sending", "sleep15", "steam_get"}

C14_OneCycleInFlight ==
    /\ running <= 1
    /\ InCycle <=> running = 1

\* The second cycle waits for its Epic response while system_status has run.
C14_Witness ==
    /\ cycle = 2
    /\ pc = "epic_get"
    /\ running = 1
    /\ statusCount = 1

\* --------------------------------------- process_game_data, run concurrently
\* Two tasks each run process_game_data on one record, interleaved at the
\* awaits of the code.
RaceTasks == {1, 2}

SuspendsBeforeInsert_Yes == TRUE

\* Lines 126-127: there is no await between the membership test and the
\* insertion.
SuspendsBeforeInsert == FALSE

InitRace ==
    /\ tasks \in [RaceTasks ->
                    {[at |-> "start", game |-> g, platform |-> p] :
                        g \in SampleGames, p \in Platforms}]
    /\ pc = "race"
    /\ tracked_games = <<>>
    /\ session = "open"
    /\ ready = TRUE
    /\ games = <<>>
    /\ alerts = [p \in Platforms |-> [k \in Keys |-> 0]]
    /\ failed = {}
    /\ now = 0
    /\ cycle = 0
    /\ epicFetches = 0
    /\ steamFetches = 0
    /\ epicOutcome = "none"
    /\ prevEpicFailed = FALSE
    /\ returned = {}
    /\ lastResult = "none"
    /\ statusCount = 0
    /\ running = 0

\* Lines 119-132 and 151-201 for task t, from where it stands to its next
\* await: from "start" the test of line 126, from "checked" (reached only if
\* the test were followed by an await) the insertion and the call.
RaceEnter(t) ==
    LET me == tasks[t]
        inserts ==
            \/ me.at = "checked"
            \/ /\ me.at = "start"
               /\ me.game.kind = "map"
               /\ is_game_free(me.game)
               /\ IsNew(me.game.id, tracked_games)
               /\ ~SuspendsBeforeInsert
        waits ==
            /\ me.at = "start"
            /\ me.game.kind = "map"
            /\ is_game_free(me.game)
            /\ IsNew(me.game.id, tracked_games)
            /\ SuspendsBeforeInsert
    IN  /\ me.at \in {"start", "checked"}
        /\ IF inserts
           THEN \E start \in AlertStarts :
                /\ alerts' = CallSendGameAlert(alerts, me.platform, me.game.id)
                /\ IF start = "awaiting_send"
                   THEN /\ tracked_games' = SetItem(tracked_games, me.game.id, now)
                        /\ tasks' = [tasks EXCEPT ![t].at = "sending"]
                        /\ UNCHANGED failed
                   ELSE /\ tracked_games' =
                             TrackedAfterFailedAlert(
                                 SetItem(tracked_games, me.game.id, now), me.game.id)
                        /\ failed' = failed \cup {<<me.platform, me.game.id>>}
                        /\ tasks' = [tasks EXCEPT ![t].at = "done"]
           ELSE /\ tasks' = [tasks EXCEPT ![t].at = IF waits THEN "checked" ELSE "done"]
                /\ UNCHANGED <<tracked_games, alerts, failed>>
        /\ UNCHANGED <<session, ready, pc, games, now, cycle, history, lastResult,
                       statusCount, running>>

\* Lines 201-205 for task t: channel.send returns or raises.
RaceSendComplete(t, delivered) ==
    /\ tasks[t].at = "sending"
    /\ tasks' = [tasks EXCEPT ![t].at = "done"]
    /\ IF delivered
       THEN UNCHANGED <<tracked_games, failed>>
       ELSE /\ tracked_games' = TrackedAfterFailedAlert(tracked_games, tasks[t].game.id)
            /\ failed' = failed \cup {<<tasks[t].platform, tasks[t].game.id>>}
    /\ UNCHANGED <<session, ready, pc, games, alerts, now, cycle, history,
                   lastResult, statusCount, running>>

NextRace ==
    \/ \E t \in RaceTasks : RaceEnter(t)
    \/ \E t \in RaceTasks, delivered \in BOOLEAN : RaceSendComplete(t, delivered)

SpecRace == InitRace /\ [][NextRace]_vars

\* C15: whatever the interleaving of two tasks, no key is alerted twice, and
\* when both tasks have handled a free record with the same key exactly one
\* of them has inserted it and called the notifier.
SameFreeKey ==
    /\ tasks[1].game.kind = "map" /\ tasks[2].game.kind = "map"
    /\ is_game_free(tasks[1].game) /\ is_game_free(tasks[2].game)
    /\ tasks[1].game.id = tasks[2].game.id

C15_NoDuplicateUnderInterleaving ==
    /\ \A k \in Keys : TotalAlerts(k) <= 1
    /\ (SameFreeKey /\ \A t \in RaceTasks : tasks[t].at \in {"sending", "done"})
         => /\ TotalAlerts(tasks[1].game.id) = 1
            /\ tasks[1].game.id \in DOMAIN tracked_games
            /\ \E t \in RaceTasks : tasks[t].at = "done"

\* Task 2 found A1 tracked while the alert of task 1 for A1 was in flight.
C15_Witness ==
    /\ SameFreeKey
    /\ tasks[1].game.id = "A1"
    /\ tasks[1].at = "sending"
    /\ tasks[2].at = "done"
    /\ TotalAlerts("A1") = 1

\* C16: the Steam fetch is issued only from the sleep between the sources,
\* which is entered only once the Epic fetch is over (succeeded or failed) and
\* every record of its response has been processed and its alert has ended;
\* the clock has advanced when the Steam fetch is issued.
C16_SourcesInSequence ==
    /\ [](pc \in {"sleep15", "steam_get"} => (games = <<>> /\ epicOutcome # "none"))
    /\ [][steamFetches' # steamFetches =>
            /\ pc = "sleep15" /\ pc' = "steam_get"
            /\ now' > now
            /\ steamFetches' = cycle]_vars

\* Cycle 2: A1 was inserted and alerted, then the delay elapsed and the Steam
\* fetch is pending; the Epic fetch of cycle 1 had failed.
C16_Witness ==
    /\ cycle = 2
    /\ pc = "steam_get"
    /\ prevEpicFailed
    /\ epicOutcome = "ok"
    /\ DOMAIN tracked_games = {"A1"}
    /\ tracked_games["A1"] = 3
    /\ now = 4

\* C17: once a cycle is over, every free record returned by a successful
\* fetch of either platform is tracked and has had its alert called for that
\* platform.
C17_UniformSources ==
    pc = "idle" =>
        \A pk \in returned :
            /\ pk[2] \in DOMAIN tracked_games
            /\ alerts[pk[1]][pk[2]] = 1

\* C18: a firing of system_status changes nothing but its own count.
C18_StatusReadsOnly ==
    [][statusCount' # statusCount =>
         UNCHANGED <<tracked_games, session, ready, pc, games, alerts, failed,
                     now, cycle, history, lastResult, running>>]_vars

\* system_status has fired and an alert is in flight with another key tracked.
C18_Witness ==
    /\ statusCount = 1
    /\ pc = "sending"
    /\ Current.id = NoId
    /\ DOMAIN tracked_games = {"A2", NoId}
    /\ cycle = 2

\* C19: each step of the loop over the response (a record processed, raising
\* or not, or an alert ended, delivered or not) removes exactly the record at
\* the head and goes on with the next one, if any.
C19_PerItemIsolation ==
    [][(pc \in {"epic_loop", "sending"} /\ pc' # "stopped" /\ games' # games) =>
         /\ games' = Tail(games)
         /\ pc' = IF Tail(games) = <<>> THEN "sleep15" ELSE "epic_loop"]_vars

\* In the response of cycle 1 the delivery for A1 failed and A2, after it, was
\* inserted and alerted.
C19_Witness ==
    /\ cycle = 1
    /\ pc = "sleep15"
    /\ failed = {<<"epic_games", "A1">>}
    /\ DOMAIN tracked_games = {"A1", "A2"}
    /\ TotalAlerts("A2") = 1
    /\ lastResult = "new"

\* C20: a cycle, a fetch or an alert happens only once the session exists and
\* the bot is ready; the session is created once, by setup_hook, and closed
\* only by close().
AnyAlert == \E p \in Platforms, k \in Keys : alerts[p][k] > 0

C20_StartupOrder ==
    /\ []((cycle >= 1 \/ epicFetches >= 1 \/ steamFetches >= 1 \/ AnyAlert)
            => (ready /\ session # "none"))
    /\ [][session' # session =>
            \/ session = "none" /\ session' = "open" /\ pc = "not_started"
                                /\ pc' = "before_loop"
            \/ session = "open" /\ session' = "closed" /\ pc' = "stopped"
                                /\ statusCount' = statusCount]_vars

\* The bot was closed after two cycles and a status report: the session is
\* closed and the store is kept.
C20_Witness ==
    /\ session = "closed"
    /\ pc = "stopped"
    /\ cycle = 2
    /\ statusCount = 1
    /\ DOMAIN tracked_games = {"A1"}

=============================================================================
